---------------------------- MODULE Spec2Model ----------------------------
(***************************************************************************)
(* A model of tyre_scraper.py: the listing-page record extractor           *)
(* (parse_listing_page, parse_ron, fmt), the pagination resolver           *)
(* (get_all_page_urls, get_next_page_url), the two crawl loops             *)
(* (scrape_category, scrape_search), and the export step                   *)
(* (deduplicate, save_results, main).                                      *)
(*                                                                         *)
(* Strings the code computes with are sequences of one-character strings,  *)
(* so that replace(), float() and the formatting are modelled by what they *)
(* do.  Python's None is the empty sequence <<>> and a value v is <<v>>.   *)
(* Floats are held in hundredths (67.01 is 6701): PRICE_RE admits exactly  *)
(* two decimals, so the order and the zero test are those of the floats.   *)
(***************************************************************************)
EXTENDS Integers, Sequences, FiniteSets, TLC

VARIABLES
    pc,           \* position of the running function
    \* ---- parse_listing_page
    anchor,       \* the candidate (href, anchor) of the current iteration
    seen_urls,    \* seen_urls (line 131)
    results,      \* results (line 98)
    scanned,      \* number of product_links consumed so far
    fresh,        \* the current candidate passed the seen_urls test
    \* ---- pagination and crawl
    links,        \* the a[href] elements of the first category page
    page_urls,    \* page_urls of scrape_category (line 282)
    total_pages,  \* total_pages (line 283)
    todo,         \* what is left of page_urls[1:total_pages] (line 292)
    mode,         \* "category" | "search" (main, lines 418-422)
    max_pages,    \* args.pages
    url,          \* url of scrape_search; <<>> is None
    page,         \* page of scrape_search
    all_results,  \* all_results of either crawl
    log,          \* the requests and sleeps performed so far, in order
    exported      \* the list save_results writes; <<>> before it runs

vars == <<pc, anchor, seen_urls, results, scanned, fresh, links,
          page_urls, total_pages, todo, mode, max_pages, url, page,
          all_results, log, exported>>

listingVars == <<anchor, seen_urls, results, scanned, fresh>>
crawlVars == <<links, page_urls, total_pages, todo, mode, max_pages, url,
               page, all_results, log, exported>>

None == <<>>

Min(a, b) == IF a <= b THEN a ELSE b
Max(a, b) == IF a >= b THEN a ELSE b

Last(s) == s[Len(s)]

\* All sequences over S of length at most n.
SeqsUpTo(S, n) == UNION {[1..k -> S] : k \in 0..n}

(***************************************************************************)
(* Bounds of the model.                                                    *)
(***************************************************************************)
MaxPrices == 2      \* currency-tagged prices in one block's text
MaxDepth == 2       \* ancestors of a candidate anchor
MaxLinks == 2       \* candidate product links on one listing page
MaxPageNo == 4      \* largest page number a pagination link names
MaxNavLinks == 2    \* a[href] elements inspected by get_all_page_urls
MaxCap == 4         \* largest --pages value
NegCap == 1         \* --pages ranges over -NegCap..MaxCap

(***************************************************************************)
(* parse_ron and fmt (lines 61-70).                                        *)
(***************************************************************************)
DigitChars == {"0", "1", "2", "3", "4", "5", "6", "7", "8", "9"}

DigitVal(c) ==
    CASE c = "0" -> 0 [] c = "1" -> 1 [] c = "2" -> 2 [] c = "3" -> 3
      [] c = "4" -> 4 [] c = "5" -> 5 [] c = "6" -> 6 [] c = "7" -> 7
      [] c = "8" -> 8 [] c = "9" -> 9

RECURSIVE DigitsToInt(_)
DigitsToInt(s) ==
    IF s = <<>> THEN 0
    ELSE 10 * DigitsToInt(SubSeq(s, 1, Len(s) - 1)) + DigitVal(s[Len(s)])

\* s.replace(old, new) for one-character old; new is a (possibly empty) string.
RECURSIVE Replace(_, _, _)
Replace(s, old, new) ==
    IF s = <<>> THEN <<>>
    ELSE (IF Head(s) = old THEN new ELSE <<Head(s)>>)
         \o Replace(Tail(s), old, new)

\* float(s) for the decimal strings that reach it, in hundredths; None when
\* Python raises ValueError.
ToFloat(s) ==
    LET dots == {k \in DOMAIN s : s[k] = "."}
        wellFormed(ip, fp) ==
            /\ \A k \in DOMAIN ip : ip[k] \in DigitChars
            /\ \A k \in DOMAIN fp : fp[k] \in DigitChars
            /\ Len(ip) + Len(fp) > 0
            /\ Len(fp) <= 2
    IN  IF Cardinality(dots) > 1 THEN None
        ELSE LET d == IF dots = {} THEN Len(s) + 1 ELSE CHOOSE k \in dots : TRUE
                 ip == SubSeq(s, 1, d - 1)
                 fp == SubSeq(s, d + 1, Len(s))
             IN  IF ~wellFormed(ip, fp) THEN None
                 ELSE <<100 * DigitsToInt(ip)
                        + (IF Len(fp) = 1 THEN 10 ELSE 1) * DigitsToInt(fp)>>

parse_ron(s) == ToFloat(Replace(Replace(s, ".", <<>>), ",", <<".">>))

fmt(s) == IF s # <<>> THEN s \o <<" ", "l", "e", "i">> ELSE <<>>

\* Python truthiness of an Optional[float]: None and 0.0 are false.
Truthy(v) == v # None /\ v[1] # 0

(***************************************************************************)
(* The text of a block.  PRICE_RE.findall (line 153) returns the price     *)
(* tokens of the text in document order: `prices'.  `words' are the        *)
(* stock-status phrases that occur in it, spelled as on the page; `lei' is *)
(* whether the substring "lei" occurs at all.                              *)
(***************************************************************************)
P0 == <<"0", ",", "0", "0">>
P67 == <<"6", "7", ",", "0", "1">>
P1335 == <<"1", ".", "3", "3", "5", ",", "6", "2">>
PriceTokens == {P0, P67, P1335}

StatusWords == {"Momentan Indisponibil", "momentan indisponibil",
                "Stoc Bucuresti", "In stoc furnizor", "La comanda"}

\* str.lower() on the phrases of StatusWords.
Lower(w) ==
    CASE w = "Momentan Indisponibil" -> "momentan indisponibil"
      [] w = "Stoc Bucuresti" -> "stoc bucuresti"
      [] w = "In stoc furnizor" -> "in stoc furnizor"
      [] w = "La comanda" -> "la comanda"
      [] OTHER -> w

EmptyText == [lei |-> FALSE, prices |-> <<>>, words |-> {}]
CardText == [lei |-> TRUE, prices |-> <<P67, P1335>>, words |-> {"Stoc Bucuresti"}]

PriceTexts ==
    {[lei |-> TRUE, prices |-> p, words |-> {}] : p \in SeqsUpTo(PriceTokens, MaxPrices)}
StatusTexts ==
    {[lei |-> TRUE, prices |-> <<P67>>, words |-> w] : w \in SUBSET StatusWords}

(***************************************************************************)
(* An ancestor of an anchor: its tag name, its text and the length of that *)
(* text (line 144).  A candidate is an href with the anchor's parents,     *)
(* nearest first.                                                          *)
(***************************************************************************)
MaxBlockLen == 3000

Ancestor(name, text, len) == [name |-> name, text |-> text, len |-> len]

WalkAncestors ==
    {Ancestor("div", [EmptyText EXCEPT !.words = {"Momentan Indisponibil"}],
              MaxBlockLen - 1),
     Ancestor("div", CardText, MaxBlockLen - 1),
     Ancestor("div", CardText, MaxBlockLen),
     Ancestor("body", CardText, MaxBlockLen - 1)}

ProductUrls == {"/tyre-a/", "/tyre-b/"}

Parents ==
    SeqsUpTo(WalkAncestors, MaxDepth)
    \cup {<<Ancestor("div", t, MaxBlockLen - 1)>> : t \in PriceTexts \cup StatusTexts}

Candidates == {[href |-> h, parents |-> p] : h \in ProductUrls, p \in Parents}

Boundaries == {"body", "html", "main", "nav", "header", "footer"}

\* FindContainer with the boundary test of line 142 left out.
RECURSIVE FindContainerPastBoundary(_)
FindContainerPastBoundary(parents) ==
    IF parents = <<>> THEN None
    ELSE LET parent == Head(parents)
         IN  IF parent.text.lei /\ parent.len < MaxBlockLen THEN <<parent>>
             ELSE FindContainerPastBoundary(Tail(parents))

\* Lines 140-147: the first parent, below a boundary, whose text holds "lei"
\* and is shorter than 3000; None when there is none.
RECURSIVE FindContainer(_)
FindContainer(parents) ==
    IF parents = <<>> THEN None
    ELSE LET parent == Head(parents)
         IN  IF parent.name \in Boundaries THEN None
             ELSE IF parent.text.lei /\ parent.len < MaxBlockLen THEN <<parent>>
             ELSE FindContainer(Tail(parents))

\* Line 149.
RawText(container) == IF container # None THEN container[1].text ELSE EmptyText

\* Line 156: the (token, value) pairs whose value is truthy.
RECURSIVE Numeric(_)
Numeric(price_matches) ==
    IF price_matches = <<>> THEN <<>>
    ELSE LET p == Head(price_matches)
         IN  (IF Truthy(parse_ron(p)) THEN <<<<p, parse_ron(p)[1]>>>> ELSE <<>>)
             \o Numeric(Tail(price_matches))

\* sorted(numeric, key=lambda x: x[1]): stable, ascending (line 164).
RECURSIVE InsertByValue(_, _)
InsertByValue(sorted, x) ==
    IF sorted = <<>> THEN <<x>>
    ELSE IF sorted[Len(sorted)][2] <= x[2] THEN Append(sorted, x)
    ELSE Append(InsertByValue(SubSeq(sorted, 1, Len(sorted) - 1), x),
                sorted[Len(sorted)])

RECURSIVE SortedByValue(_)
SortedByValue(numeric) ==
    IF numeric = <<>> THEN <<>>
    ELSE InsertByValue(SortedByValue(SubSeq(numeric, 1, Len(numeric) - 1)),
                       numeric[Len(numeric)])

\* Lines 153-167: (sale_price_str, orig_price_str, price_value).
Prices(text) ==
    LET numeric == Numeric(text.prices)
        numeric_sorted == SortedByValue(numeric)
    IN  IF numeric # <<>>
        THEN [sale |-> numeric_sorted[1][1],
              orig |-> IF Len(numeric_sorted) > 1
                       THEN numeric_sorted[Len(numeric_sorted)][1] ELSE <<>>,
              value |-> <<numeric_sorted[1][2]>>]
        ELSE [sale |-> <<>>, orig |-> <<>>, value |-> None]

\* Availability with the first two tests of lines 171-176 in the other order.
AvailabilityStockFirst(text) ==
    LET avail_text == {Lower(w) : w \in text.words}
    IN  IF "stoc bucuresti" \in avail_text
        THEN [availability |-> "In stock (Bucharest)", in_stock |-> TRUE]
        ELSE IF "momentan indisponibil" \in avail_text
        THEN [availability |-> "Out of stock", in_stock |-> FALSE]
        ELSE IF "in stoc furnizor" \in avail_text
        THEN [availability |-> "In stock (supplier)", in_stock |-> TRUE]
        ELSE IF "la comanda" \in avail_text
        THEN [availability |-> "Order only", in_stock |-> TRUE]
        ELSE [availability |-> "Unknown", in_stock |-> TRUE]

\* Lines 170-185: (availability, in_stock).
Availability(text) ==
    LET avail_text == {Lower(w) : w \in text.words}
    IN  IF "momentan indisponibil" \in avail_text
        THEN [availability |-> "Out of stock", in_stock |-> FALSE]
        ELSE IF "stoc bucuresti" \in avail_text
        THEN [availability |-> "In stock (Bucharest)", in_stock |-> TRUE]
        ELSE IF "in stoc furnizor" \in avail_text
        THEN [availability |-> "In stock (supplier)", in_stock |-> TRUE]
        ELSE IF "la comanda" \in avail_text
        THEN [availability |-> "Order only", in_stock |-> TRUE]
        ELSE [availability |-> "Unknown", in_stock |-> TRUE]

\* Lines 195-209: the record appended for one candidate.
MakeRecord(href, text) ==
    LET p == Prices(text)
        a == Availability(text)
    IN  [url |-> href,
         price |-> fmt(p.sale),
         original_price |-> fmt(p.orig),
         price_value |-> p.value,
         availability |-> a.availability,
         in_stock |-> a.in_stock]

\* Lines 133-209 for one candidate: what results becomes.
Emit(res, href, parents) ==
    Append(res, MakeRecord(href, RawText(FindContainer(parents))))

InitIdleCrawl ==
    /\ links = <<>> /\ page_urls = <<>> /\ total_pages = 0 /\ todo = <<>>
    /\ mode = "none" /\ max_pages = 0 /\ url = None /\ page = 0
    /\ all_results = <<>> /\ log = <<>> /\ exported = <<>>

InitIdleListing ==
    /\ anchor = None /\ seen_urls = {}
    /\ results = <<>> /\ scanned = 0 /\ fresh = FALSE

InitListing ==
    /\ pc = "parse"
    /\ InitIdleListing
    /\ InitIdleCrawl

\* One iteration of the loop of lines 133-209.
ParseCandidate ==
    /\ pc = "parse"
    /\ scanned < MaxLinks
    /\ \E c \in Candidates :
         /\ anchor' = <<c>>
         /\ scanned' = scanned + 1
         /\ IF c.href \in seen_urls
            THEN /\ fresh' = FALSE
                 /\ UNCHANGED <<seen_urls, results>>
            ELSE /\ fresh' = TRUE
                 /\ seen_urls' = seen_urls \cup {c.href}
                 /\ results' = Emit(results, c.href, c.parents)
    /\ UNCHANGED <<pc>>
    /\ UNCHANGED crawlVars

\* Line 211.
ReturnResults ==
    /\ pc = "parse"
    /\ pc' = "parsed"
    /\ UNCHANGED listingVars
    /\ UNCHANGED crawlVars

NextListing == ParseCandidate \/ ReturnResults

SpecListing == InitListing /\ [][NextListing]_vars

(***************************************************************************)
(* Claims about parse_listing_page, stated on the candidate of the current *)
(* iteration and the record it appended.                                   *)
(***************************************************************************)
\* The k-th parent is an enclosing content block: no structural boundary at
\* or below it, the currency marker in its text, under the size threshold.
IsBlock(parents, k) ==
    /\ \A j \in 1..k : parents[j].name \notin Boundaries
    /\ parents[k].text.lei
    /\ parents[k].len < MaxBlockLen

NoEnclosingBlock(parents) == ~\E k \in DOMAIN parents : IsBlock(parents, k)

\* The text of the nearest enclosing content block; empty when there is none.
BlockText(parents) ==
    IF NoEnclosingBlock(parents) THEN EmptyText
    ELSE LET k == CHOOSE k \in DOMAIN parents :
                    /\ IsBlock(parents, k)
                    /\ \A j \in 1..(k - 1) : ~IsBlock(parents, j)
         IN  parents[k].text

\* A candidate has just been turned into a record.
Extracted == pc = "parse" /\ anchor # None /\ fresh

HasPhrase(text, phrase) == \E w \in text.words : Lower(w) = phrase

\* C4 (as claimed): two or more currency-tagged prices give the lowest parsed
\* value as price/price_value and the highest as original_price; exactly one
\* is the sale price with no original price; none gives no price at all.
C4_LowestIsSale ==
    Extracted =>
      LET toks == BlockText(anchor[1].parents).prices
          val(k) == parse_ron(toks[k])[1]
          rec == Last(results)
      IN  /\ Len(toks) >= 2 =>
               \E lo, hi \in DOMAIN toks :
                  /\ \A k \in DOMAIN toks : val(lo) <= val(k) /\ val(k) <= val(hi)
                  /\ rec.price_value = <<val(lo)>>
                  /\ parse_ron(SubSeq(rec.price, 1, Len(rec.price) - 4)) = <<val(lo)>>
                  /\ rec.original_price # <<>>
                  /\ parse_ron(SubSeq(rec.original_price, 1,
                                      Len(rec.original_price) - 4)) = <<val(hi)>>
          /\ Len(toks) = 1 =>
               /\ rec.price = fmt(toks[1])
               /\ rec.price_value = parse_ron(toks[1])
               /\ rec.original_price = <<>>
          /\ Len(toks) = 0 =>
               /\ rec.price_value = None
               /\ rec.price = <<>>
               /\ rec.original_price = <<>>

\* C4 restricted to blocks none of whose prices parses to zero.
C4_LowestIsSaleNonZero ==
    (Extracted /\ \E k \in DOMAIN BlockText(anchor[1].parents).prices :
                     BlockText(anchor[1].parents).prices[k] = P0)
    \/ C4_LowestIsSale

\* C6 (as claimed): a candidate with no enclosing content block is skipped:
\* no record with its url is in the list.
C6_UnresolvedSkipped ==
    (Extracted /\ NoEnclosingBlock(anchor[1].parents)) =>
      \A k \in DOMAIN results : results[k].url # anchor[1].href

\* C6 (amended): a candidate with no enclosing content block is still emitted,
\* once, as a record with no price, no original price, no price value,
\* availability "Unknown" and in_stock true.
C6_UnresolvedEmittedEmpty ==
    (Extracted /\ NoEnclosingBlock(anchor[1].parents)) =>
      /\ Last(results) = [url |-> anchor[1].href, price |-> <<>>,
                          original_price |-> <<>>, price_value |-> None,
                          availability |-> "Unknown", in_stock |-> TRUE]
      /\ Cardinality({k \in DOMAIN results : results[k].url = anchor[1].href}) = 1

\* The walk of a fresh candidate stopped at a structural boundary whose own
\* text would have qualified.
C6_Witness ==
    /\ Extracted
    /\ NoEnclosingBlock(anchor[1].parents)
    /\ \E k \in DOMAIN anchor[1].parents :
         /\ anchor[1].parents[k].name \in Boundaries
         /\ anchor[1].parents[k].text.lei
    /\ Len(results) = 2

\* C8: availability follows the fixed priority order over the lowercased
\* block text: "momentan indisponibil" wins over every other phrase, then
\* "stoc bucuresti", "in stoc furnizor", "la comanda"; no phrase gives
\* "Unknown"/in stock; in_stock is false only when out of stock.
C8_AvailabilityPriority ==
    Extracted =>
      LET t == BlockText(anchor[1].parents)
          rec == Last(results)
          mi == HasPhrase(t, "momentan indisponibil")
          sb == HasPhrase(t, "stoc bucuresti")
          sf == HasPhrase(t, "in stoc furnizor")
          lc == HasPhrase(t, "la comanda")
      IN  /\ mi => rec.availability = "Out of stock" /\ rec.in_stock = FALSE
          /\ (~mi /\ sb) => rec.availability = "In stock (Bucharest)"
          /\ (~mi /\ ~sb /\ sf) => rec.availability = "In stock (supplier)"
          /\ (~mi /\ ~sb /\ ~sf /\ lc) => rec.availability = "Order only"
          /\ (~mi /\ ~sb /\ ~sf /\ ~lc) => rec.availability = "Unknown"
          /\ ~mi => rec.in_stock = TRUE
          /\ rec.in_stock = FALSE <=> rec.availability = "Out of stock"

\* A block spelling "Momentan Indisponibil" together with the three other
\* phrases has been extracted.
C8_Witness ==
    /\ Extracted
    /\ LET t == BlockText(anchor[1].parents)
       IN  /\ "Momentan Indisponibil" \in t.words
           /\ HasPhrase(t, "stoc bucuresti")
           /\ HasPhrase(t, "in stoc furnizor")
           /\ HasPhrase(t, "la comanda")
    /\ Last(results).in_stock = FALSE

(***************************************************************************)
(* Pagination (lines 218-261).  A link is an a[href] element: `page' is    *)
(* the digit string that r"/page-(\d+)/?$" captures from its href (None    *)
(* when the href does not match), `text' its stripped text: a range        *)
(* "a - b" that r"(\d+)\s*-\s*(\d+)" matches, the "next page" label, or    *)
(* anything else.  `abs' tells an absolute href from a root-relative one.  *)
(* An absolute URL is BASE_URL followed by its path segments:              *)
(* <<BASE_URL, slug>> is /slug/ and <<BASE_URL, slug, n>> /slug/page-n/; a *)
(* root-relative href is the path segments alone.                          *)
(***************************************************************************)
DigitChar(n) ==
    CASE n = 0 -> "0" [] n = 1 -> "1" [] n = 2 -> "2" [] n = 3 -> "3"
      [] n = 4 -> "4" [] n = 5 -> "5" [] n = 6 -> "6" [] n = 7 -> "7"
      [] n = 8 -> "8" [] n = 9 -> "9"

PlainText == [kind |-> "plain", a |-> <<>>, b |-> <<>>]
NextText(label) == [kind |-> label, a |-> <<>>, b |-> <<>>]
RangeText(a, b) == [kind |-> "range", a |-> <<DigitChar(a)>>, b |-> <<DigitChar(b)>>]

Link(pg, text) == [page |-> pg, text |-> text, abs |-> TRUE, target |-> None]
PageRef(n) == <<DigitChar(n)>>

NavTexts == {PlainText} \cup {RangeText(a, b) : a, b \in 1..MaxPageNo}
NavLinks == {Link(pg, t) : pg \in {None, PageRef(1), PageRef(MaxPageNo)}, t \in NavTexts}

BASE_URL == "https://www.anvelopemoto.eu"

\* start_url of scrape_category (line 270), for the default slug.
CategoryUrl == <<BASE_URL, "anvelope-moto">>

\* urljoin(BASE_URL, href) for a root-relative href.
UrlJoin(href) == <<BASE_URL>> \o href

\* Lines 228-232: the page numbers of the hrefs.
RECURSIVE HrefPages(_)
HrefPages(ls) ==
    IF ls = <<>> THEN {}
    ELSE (IF Head(ls).page # None THEN {DigitsToInt(Head(ls).page)} ELSE {})
         \cup HrefPages(Tail(ls))

\* RangePages with range(a, b) in place of range(a, b + 1) (line 243).
RECURSIVE RangePagesExclusive(_)
RangePagesExclusive(ls) ==
    IF ls = <<>> THEN {}
    ELSE (IF Head(ls).page # None /\ Head(ls).text.kind = "range"
          THEN DigitsToInt(Head(ls).text.a)..(DigitsToInt(Head(ls).text.b) - 1)
          ELSE {})
         \cup RangePagesExclusive(Tail(ls))

\* Lines 235-244: the ranges spelled by the text of pagination links.
RECURSIVE RangePages(_)
RangePages(ls) ==
    IF ls = <<>> THEN {}
    ELSE (IF Head(ls).page # None /\ Head(ls).text.kind = "range"
          THEN DigitsToInt(Head(ls).text.a)..DigitsToInt(Head(ls).text.b)
          ELSE {})
         \cup RangePages(Tail(ls))

\* sorted(page_numbers) (line 246).
RECURSIVE SortedSeq(_)
SortedSeq(S) ==
    IF S = {} THEN <<>>
    ELSE LET m == CHOOSE x \in S : \A y \in S : x <= y
         IN  <<m>> \o SortedSeq(S \ {m})

get_all_page_urls(ls, base_category_url) ==
    LET page_numbers == SortedSeq(HrefPages(ls) \cup RangePages(ls))
    IN  <<base_category_url>>
        \o [k \in DOMAIN page_numbers |-> Append(base_category_url, page_numbers[k])]

\* str.lower() on link labels.
LowerLabel(t) ==
    CASE t = "Urmatorul" -> "urmatorul"
      [] t = "URMATORUL" -> "urmatorul"
      [] OTHER -> t

\* Lines 254-261: the target of the first link whose text holds the label.
RECURSIVE get_next_page_url(_)
get_next_page_url(ls) ==
    IF ls = <<>> THEN None
    ELSE IF Head(ls).text.kind = "Urmatorul"
            \/ LowerLabel(Head(ls).text.kind) = "urmatorul"
    THEN <<IF Head(ls).abs THEN Head(ls).target ELSE UrlJoin(Head(ls).target)>>
    ELSE get_next_page_url(Tail(ls))

InitPages ==
    /\ pc = "resolve"
    /\ links \in SeqsUpTo(NavLinks, MaxNavLinks)
    /\ page_urls = <<>> /\ total_pages = 0 /\ todo = <<>>
    /\ mode = "none" /\ max_pages = 0 /\ url = None /\ page = 0
    /\ all_results = <<>> /\ log = <<>> /\ exported = <<>>
    /\ InitIdleListing

ResolvePages ==
    /\ pc = "resolve"
    /\ page_urls' = get_all_page_urls(links, CategoryUrl)
    /\ pc' = "resolved"
    /\ UNCHANGED <<links, total_pages, todo, mode, max_pages, url, page,
                   all_results, log, exported>>
    /\ UNCHANGED listingVars

NextPages == ResolvePages

SpecPages == InitPages /\ [][NextPages]_vars

(***************************************************************************)
(* Claims about get_all_page_urls.                                         *)
(***************************************************************************)
\* page_urls is the original URL followed by /page-N/ for exactly the N of S,
\* in ascending order.
ResolvesTo(S) ==
    /\ Len(page_urls) = 1 + Cardinality(S)
    /\ page_urls[1] = CategoryUrl
    /\ \A k \in 2..Len(page_urls) :
         \E n \in S : page_urls[k] = Append(CategoryUrl, n)
    /\ \A j, k \in 2..Len(page_urls) : j < k => Last(page_urls[j]) < Last(page_urls[k])

HrefNumbers == {DigitsToInt(links[k].page) : k \in {j \in DOMAIN links : links[j].page # None}}

RangeOf(l) == DigitsToInt(l.text.a)..DigitsToInt(l.text.b)

\* C3 (as claimed): the page numbers are those of the /page-N/ hrefs and the
\* integers inside the range of ANY link whose text is a numeric range.
C3_PagesFromAnyRange ==
    pc = "resolved" =>
      ResolvesTo(HrefNumbers
                 \cup UNION {RangeOf(links[k]) :
                               k \in {j \in DOMAIN links : links[j].text.kind = "range"}})

\* C3 (amended): the page numbers are those of the /page-N/ hrefs and the
\* integers inside the range spelled by the text of a link whose own href
\* ends in /page-<M>/; range text on any other link is ignored.
C3_PagesFromPaginationRange ==
    pc = "resolved" =>
      ResolvesTo(HrefNumbers
                 \cup UNION {RangeOf(links[k]) :
                               k \in {j \in DOMAIN links :
                                        /\ links[j].text.kind = "range"
                                        /\ links[j].page # None}})

\* Resolved from a pagination link whose text spells a range of several pages
\* beside a non-pagination link whose text spells another range.
C3_Witness ==
    /\ pc = "resolved"
    /\ \E j, k \in DOMAIN links :
         /\ links[j].page # None /\ links[j].text.kind = "range"
         /\ Cardinality(RangeOf(links[j])) >= 2
         /\ links[k].page = None /\ links[k].text.kind = "range"
         /\ RangeOf(links[k]) \cap (RangeOf(links[j]) \cup HrefNumbers) = {}
         /\ RangeOf(links[k]) # {}
    /\ Len(page_urls) >= 3

\* The listing page a URL names: /slug/ and /slug/page-1/ are both page 1.
PageNo(u) == IF u = CategoryUrl THEN 1 ELSE Last(u)

\* C10: the resolved list names each listing page at most once: page 1 only
\* as the original URL, never as /page-1/, and strictly ascending after it.
C10_EachPageOnce ==
    pc = "resolved" =>
      /\ \A k \in 2..Len(page_urls) : page_urls[k] # Append(CategoryUrl, 1)
      /\ \A j, k \in DOMAIN page_urls : j < k => PageNo(page_urls[j]) < PageNo(page_urls[k])

\* C10 for first pages none of whose links names page 1 or a lower number.
C10_EachPageOnceAboveOne ==
    (pc = "resolved" /\ \E k \in 2..Len(page_urls) : Last(page_urls[k]) <= 1)
    \/ C10_EachPageOnce

(***************************************************************************)
(* The crawl (lines 268-332) and the export (lines 339-349, 418-428).      *)
(* fetch(url) returns None on a request failure and a soup otherwise; a    *)
(* soup is the page's product urls in document order (what                 *)
(* parse_listing_page turns into records) and its a[href] links.  Every    *)
(* fetch outcome is chosen when the request is made.  scraped_at is the    *)
(* ordinal of the request that fetched the page.                           *)
(***************************************************************************)
SearchUrl == <<BASE_URL, "index.php?dispatch=products.search">>

NextLink(label, isAbs, target) ==
    [page |-> None, text |-> NextText(label), abs |-> isAbs, target |-> target]

SearchNavs ==
    {<<>>,
     <<Link(PageRef(2), PlainText)>>,
     <<Link(PageRef(2), PlainText), NextLink("Urmatorul", TRUE, SearchUrl)>>,
     <<NextLink("URMATORUL", FALSE, <<"search-page-2">>)>>}

ProductLists == {<<>>, <<"/tyre-a/">>, <<"/tyre-b/", "/tyre-a/">>}

Soup(products, nav) == [products |-> products, links |-> nav]

\* The first category page of the site: a range label "2 - n" on the link to
\* page 2 (or no pagination at all).
FirstPageLinks ==
    {<<>>} \cup {<<Link(PageRef(2), RangeText(2, n))>> : n \in 2..MaxPageNo}

\* parse_listing_page(soup) (lines 87-211) as the crawl sees it: one record
\* per product url of the page, stamped with the time of extraction.
ListingRecords(soup, now) ==
    [k \in DOMAIN soup.products |-> [url |-> soup.products[k], scraped_at |-> now]]

Request(u, soup) ==
    [e |-> "req", url |-> u, ok |-> soup # None,
     products |-> IF soup # None THEN soup[1].products ELSE <<>>,
     nav |-> IF soup # None THEN soup[1].links ELSE <<>>]
Sleep == [e |-> "sleep", url |-> None, ok |-> TRUE, products |-> <<>>, nav |-> <<>>]

IsRequest(ev) == ev.e = "req"
Requests == SelectSeq(log, IsRequest)

\* seq[lo:hi] of Python, lo >= 0.
PySlice(seq, lo, hi) ==
    LET n == Len(seq)
        h == IF hi < 0 THEN Max(hi + n, 0) ELSE Min(hi, n)
    IN  SubSeq(seq, Min(lo, n) + 1, h)

\* CategoryPage with break in place of continue (line 297).
CategoryPageBreakOnFailure(all, rest, soup, now) ==
    IF soup = None
    THEN [all_results |-> all, todo |-> <<>>]
    ELSE [all_results |-> all \o ListingRecords(soup[1], now), todo |-> Tail(rest)]

\* Lines 295-300: one page of the category loop; what all_results and the
\* rest of the loop become.
CategoryPage(all, rest, soup, now) ==
    IF soup = None
    THEN [all_results |-> all, todo |-> Tail(rest)]
    ELSE [all_results |-> all \o ListingRecords(soup[1], now), todo |-> Tail(rest)]

\* SearchPage without the break of lines 324-325.
SearchPageNoEmptyBreak(u, pg, all, soup, now) ==
    IF soup = None
    THEN [url |-> u, page |-> pg, all_results |-> all, break |-> TRUE, sleep |-> FALSE]
    ELSE [url |-> get_next_page_url(soup[1].links), page |-> pg + 1,
          all_results |-> all \o ListingRecords(soup[1], now), break |-> FALSE,
          sleep |-> get_next_page_url(soup[1].links) # None]

\* Lines 316-330: one page of the search loop.  `break' leaves the loop;
\* `sleep' is the time.sleep of line 330.
SearchPage(u, pg, all, soup, now) ==
    IF soup = None
    THEN [url |-> u, page |-> pg, all_results |-> all, break |-> TRUE, sleep |-> FALSE]
    ELSE LET res == ListingRecords(soup[1], now)
         IN  IF res = <<>>
             THEN [url |-> u, page |-> pg, all_results |-> all \o res,
                   break |-> TRUE, sleep |-> FALSE]
             ELSE [url |-> get_next_page_url(soup[1].links), page |-> pg + 1,
                   all_results |-> all \o res, break |-> FALSE,
                   sleep |-> get_next_page_url(soup[1].links) # None]

\* Lines 339-345.
RECURSIVE DedupFrom(_, _, _)
DedupFrom(rs, seen, out) ==
    IF rs = <<>> THEN out
    ELSE IF Head(rs).url \notin seen
    THEN DedupFrom(Tail(rs), seen \cup {Head(rs).url}, Append(out, Head(rs)))
    ELSE DedupFrom(Tail(rs), seen, out)

\* deduplicate through a dict keyed by url, list({r["url"]: r for r in
\* results}.values()): first-seen order, but the last record of each url.
DedupKeepLast(rs) ==
    LET d == DedupFrom(rs, {}, <<>>)
        lastOf(u) == CHOOSE j \in DOMAIN rs :
                        /\ rs[j].url = u
                        /\ \A i \in DOMAIN rs : rs[i].url = u => i <= j
    IN  [k \in DOMAIN d |-> rs[lastOf(d[k].url)]]

deduplicate(rs) == DedupFrom(rs, {}, <<>>)

InitCrawl ==
    /\ pc = "main"
    /\ mode \in {"category", "search"}
    /\ max_pages \in (0 - NegCap)..MaxCap
    /\ links \in IF mode = "category" THEN FirstPageLinks ELSE {<<>>}
    /\ page_urls = <<>> /\ total_pages = 0 /\ todo = <<>>
    /\ url = None /\ page = 0
    /\ all_results = <<>> /\ log = <<>> /\ exported = <<>>
    /\ InitIdleListing

\* Lines 270-289: the first page of a category.
CategoryFirstPage ==
    /\ pc = "main" /\ mode = "category"
    /\ \E soup \in {None} \cup {<<Soup(p, links)>> : p \in ProductLists} :
         /\ log' = <<Request(CategoryUrl, soup)>>
         /\ IF soup = None
            THEN /\ pc' = "returned"
                 /\ UNCHANGED <<page_urls, total_pages, todo, all_results>>
            ELSE /\ page_urls' = get_all_page_urls(soup[1].links, CategoryUrl)
                 /\ total_pages' = Min(Len(page_urls'), max_pages)
                 /\ all_results' = ListingRecords(soup[1], 1)
                 /\ todo' = PySlice(page_urls', 1, total_pages')
                 /\ pc' = "cat_loop"
    /\ UNCHANGED <<links, mode, max_pages, url, page, exported>>
    /\ UNCHANGED listingVars

\* Lines 292-300: one iteration of the loop over page_urls[1:total_pages].
CategoryNextPage ==
    /\ pc = "cat_loop" /\ todo # <<>>
    /\ \E soup \in {None} \cup {<<Soup(p, <<>>)>> : p \in ProductLists} :
         LET now == Len(Requests) + 1
             st == CategoryPage(all_results, todo, soup, now)
         IN  /\ log' = log \o <<Sleep, Request(Head(todo), soup)>>
             /\ all_results' = st.all_results
             /\ todo' = st.todo
    /\ UNCHANGED <<pc, links, page_urls, total_pages, mode, max_pages, url,
                   page, exported>>
    /\ UNCHANGED listingVars

\* Line 302.
CategoryReturn ==
    /\ pc = "cat_loop" /\ todo = <<>>
    /\ pc' = "returned"
    /\ UNCHANGED crawlVars
    /\ UNCHANGED listingVars

\* Lines 307-310.
SearchBegin ==
    /\ pc = "main" /\ mode = "search"
    /\ url' = <<SearchUrl>>
    /\ page' = 1
    /\ pc' = "search_loop"
    /\ UNCHANGED <<links, page_urls, total_pages, todo, mode, max_pages,
                   all_results, log, exported>>
    /\ UNCHANGED listingVars

\* Lines 314-330: one iteration of the while loop.
SearchNextPage ==
    /\ pc = "search_loop"
    /\ url # None /\ page <= max_pages
    /\ \E soup \in {None} \cup {<<Soup(p, nav)>> : p \in ProductLists, nav \in SearchNavs} :
         LET now == Len(Requests) + 1
             st == SearchPage(url, page, all_results, soup, now)
         IN  /\ log' = log \o <<Request(url[1], soup)>>
                           \o (IF st.sleep THEN <<Sleep>> ELSE <<>>)
             /\ url' = st.url
             /\ page' = st.page
             /\ all_results' = st.all_results
             /\ pc' = IF st.break THEN "returned" ELSE "search_loop"
    /\ UNCHANGED <<links, page_urls, total_pages, todo, mode, max_pages, exported>>
    /\ UNCHANGED listingVars

\* Lines 314 and 332: the loop condition fails.
SearchReturn ==
    /\ pc = "search_loop"
    /\ ~(url # None /\ page <= max_pages)
    /\ pc' = "returned"
    /\ UNCHANGED crawlVars
    /\ UNCHANGED listingVars

\* Lines 424-426.
MainNoProducts ==
    /\ pc = "returned" /\ all_results = <<>>
    /\ pc' = "no_products"
    /\ UNCHANGED crawlVars
    /\ UNCHANGED listingVars

\* Lines 428 and 348-352.
SaveResults ==
    /\ pc = "returned" /\ all_results # <<>>
    /\ exported' = deduplicate(all_results)
    /\ pc' = "saved"
    /\ UNCHANGED <<links, page_urls, total_pages, todo, mode, max_pages, url,
                   page, all_results, log>>
    /\ UNCHANGED listingVars

NextCrawl ==
    \/ CategoryFirstPage
    \/ CategoryNextPage
    \/ CategoryReturn
    \/ SearchBegin
    \/ SearchNextPage
    \/ SearchReturn
    \/ MainNoProducts
    \/ SaveResults

SpecCrawl == InitCrawl /\ [][NextCrawl]_vars

\* The program is sequential and every step of it ends (fetch has a
\* timeout, sleep returns): a step that can be taken is taken.
FairCrawl == SpecCrawl /\ WF_vars(NextCrawl)

(***************************************************************************)
(* Claims about the crawl and the export.                                  *)
(***************************************************************************)
Finished == pc \in {"returned", "saved", "no_products"}
Ended == pc \in {"saved", "no_products"}

RequestedUrls == [k \in DOMAIN Requests |-> Requests[k].url]

\* Positions of rs that hold the first record with their url.
FirstPositions(rs) ==
    {k \in DOMAIN rs : \A j \in 1..(k - 1) : rs[j].url # rs[k].url}

\* C1: the exported list holds exactly one record per distinct url of the
\* accumulated records, that record is the first one with the url, and the
\* exported records keep the order of their first appearances.
C1_ExportFirstSeen ==
    pc = "saved" =>
      LET F == FirstPositions(all_results)
      IN  /\ Len(exported) = Cardinality(F)
          /\ \A k \in F :
               exported[Cardinality({j \in F : j <= k})] = all_results[k]
          /\ {exported[k].url : k \in DOMAIN exported}
               = {all_results[k].url : k \in DOMAIN all_results}
          /\ \A j, k \in DOMAIN exported : j # k => exported[j].url # exported[k].url

\* Exported from a crawl that met the same url on several pages, after a
\* different url had been seen first.
C1_Witness ==
    /\ pc = "saved"
    /\ Len(exported) = 2
    /\ \E i, j, k \in DOMAIN all_results :
         /\ i < j /\ j < k
         /\ all_results[i].url # all_results[j].url
         /\ all_results[j].url = all_results[k].url
         /\ all_results[j].scraped_at # all_results[k].scraped_at

\* C2: a category crawl whose first page was fetched requests exactly the
\* first min(len(page_urls), max_pages) entries of page_urls, once each, in
\* list order, whatever the pages yield and for every integer max_pages.
C2_FirstMinPages ==
    (mode = "category" /\ Finished /\ page_urls # <<>>) =>
      RequestedUrls = SubSeq(page_urls, 1, Min(Len(page_urls), max_pages))

\* C2 for page caps of at least one.
C2_FirstMinPagesPositiveCap ==
    max_pages >= 1 => C2_FirstMinPages

HasNextLink(ev) ==
    \E k \in DOMAIN ev.nav : LowerLabel(ev.nav[k].text.kind) = "urmatorul"

\* After this request the search crawl has a reason to stop: the page holds
\* no "next page" link, the page gave no records (a failed fetch gives none),
\* or it was request number max_pages.
StopsAfter(k) ==
    \/ ~HasNextLink(Requests[k])
    \/ Requests[k].products = <<>>
    \/ k >= max_pages

C5_SearchStops ==
    mode = "search" =>
      /\ Len(Requests) <= Max(max_pages, 0)
      /\ \A k \in 1..(Len(Requests) - 1) : ~StopsAfter(k)
      /\ (Finished /\ Requests # <<>>) => StopsAfter(Len(Requests))
      /\ (Finished /\ Requests = <<>>) => max_pages <= 0
      /\ (pc = "search_loop" /\ Requests # <<>> /\ StopsAfter(Len(Requests)))
           => ~ENABLED SearchNextPage

\* C5: a search crawl always terminates, requests at most max_pages pages,
\* and stops exactly when the page just requested has no next link, gave no
\* records, or the page cap is reached, also when the next links cycle.
C5_SearchTerminates ==
    /\ []C5_SearchStops
    /\ <>(mode = "search" => Ended)

\* A search crawl ended at the page cap after asking for the same URL twice:
\* the next link of the start page leads back to it.
C5_Witness ==
    /\ mode = "search" /\ Ended
    /\ Len(Requests) = max_pages
    /\ \E j, k \in DOMAIN Requests : j < k /\ Requests[j].url = Requests[k].url
    /\ HasNextLink(Last(Requests)) /\ Last(Requests).products # <<>>

\* The records the successful requests of the log gave, in order.
RECURSIVE RecordsOf(_, _)
RecordsOf(reqs, n) ==
    IF n = 0 THEN <<>>
    ELSE RecordsOf(reqs, n - 1)
         \o (IF reqs[n].ok
             THEN [k \in DOMAIN reqs[n].products |->
                     [url |-> reqs[n].products[k], scraped_at |-> n]]
             ELSE <<>>)

\* C7: a failed request is never repeated and gives no records; the crawl
\* keeps every record of the pages fetched before (and after) it; a category
\* crawl goes on with the next enumerated page, a search crawl stops.
C7_FailureNotFatal ==
    /\ \A j, k \in DOMAIN Requests :
         (j < k /\ ~Requests[j].ok) => Requests[k].url # Requests[j].url
    /\ all_results = RecordsOf(Requests, Len(Requests))
    /\ pc = "saved" => \A k \in DOMAIN all_results :
                          \E j \in DOMAIN exported : exported[j].url = all_results[k].url
    /\ mode = "category" =>
         \A k \in DOMAIN Requests :
            (~Requests[k].ok /\ k < Min(Len(page_urls), max_pages)) =>
               /\ Finished => k < Len(Requests)
               /\ k < Len(Requests) => Requests[k + 1].url = page_urls[k + 1]
               /\ k = Len(Requests) => (pc = "cat_loop" /\ todo # <<>> /\ Head(todo) = page_urls[k + 1])
    /\ mode = "search" =>
         \A k \in DOMAIN Requests :
            ~Requests[k].ok => (k = Len(Requests) /\ Finished)

\* A category crawl saved its records after a request in the middle failed:
\* records from before and from after the failure are kept.
C7_Witness ==
    /\ mode = "category" /\ pc = "saved"
    /\ \E k \in DOMAIN Requests :
         /\ ~Requests[k].ok
         /\ k > 1 /\ Requests[k - 1].products # <<>>
         /\ k < Len(Requests) /\ Requests[k + 1].products # <<>>

\* A search crawl ended on a failed request after a page that gave records.
C7_WitnessSearch ==
    /\ mode = "search" /\ pc = "saved"
    /\ Len(Requests) >= 2 /\ ~Last(Requests).ok

\* C9: every request but the first is preceded by a sleep taken after the
\* previous request, and no sleep follows the last request of a run.
C9_SleepOnlyBetweenRequests ==
    /\ log # <<>> => log[1].e = "req"
    /\ \A k \in 2..Len(log) : log[k].e = "req" => log[k - 1].e = "sleep"
    /\ \A k \in 2..Len(log) : log[k].e = "sleep" => log[k - 1].e = "req"
    /\ (Finished /\ log # <<>>) => Last(log).e = "req"

\* C9 for category crawls.
C9_SleepOnlyBetweenRequestsCategory ==
    mode = "category" => C9_SleepOnlyBetweenRequests

=============================================================================
